---- MODULE Spec2Model ----
(***************************************************************************)
(* pvc-exporter: a per-node scan loop that walks the pods of the cluster,  *)
(* resolves the persistent volume claims mounted by the running pods of    *)
(* the local node, measures the backing volumes and updates three          *)
(* Prometheus gauges.  Model of src/pvc-exporter.py.                       *)
(*                                                                         *)
(* Text that the program slices or searches (quantities, volume names,     *)
(* mount-table tokens) is a sequence of one-character strings; text that   *)
(* is only compared and used as a label (claim, namespace, pod, address)   *)
(* is a plain string.  Both None and '' of such sliced text are the empty  *)
(* sequence: the program only ever tests them for truthiness.              *)
(***************************************************************************)
EXTENDS Integers, Sequences, FiniteSets, TLC

\* ------------------------------------------------------------------ bounds
MaxCycles == 2     \* scan cycles started by the loop
MaxPods == 2       \* pods in one listing
MaxVols == 1       \* volumes of one pod

\* ------------------------------------------------------------------ text
None == "None"

Empty == << >>

Str1(a) == <<a>>

Str2(a, b) == <<a, b>>

Str3(a, b, c) == <<a, b, c>>

\* Python: sub in text
IsSubstr(sub, text) ==
    \E k \in 0..(Len(text) - Len(sub)) : SubSeq(text, k + 1, k + Len(sub)) = sub

\* Python: text[:-2]
AllButLast2(text) ==
    IF Len(text) >= 2 THEN SubSeq(text, 1, Len(text) - 2) ELSE Empty

\* Python: text[-2:]
Last2(text) ==
    IF Len(text) >= 2 THEN SubSeq(text, Len(text) - 1, Len(text)) ELSE text

Digits == {"0", "1", "2", "3", "4", "5", "6", "7", "8", "9"}

DigitVal(c) ==
    CASE c = "0" -> 0 [] c = "1" -> 1 [] c = "2" -> 2 [] c = "3" -> 3
      [] c = "4" -> 4 [] c = "5" -> 5 [] c = "6" -> 6 [] c = "7" -> 7
      [] c = "8" -> 8 [] c = "9" -> 9

RECURSIVE DecVal(_)
DecVal(ds) ==
    IF ds = Empty THEN 0
    ELSE 10 * DecVal(SubSeq(ds, 1, Len(ds) - 1)) + DigitVal(ds[Len(ds)])

\* the digits before the first "." of num (all of num when it has none)
IntPart(num) ==
    LET dots == {k \in 1..Len(num) : num[k] = "."}
        cut == IF dots = {} THEN Len(num) + 1
               ELSE CHOOSE k \in dots : \A m \in dots : k <= m
    IN SubSeq(num, 1, cut - 1)

\* float(num) accepts num: over the digits and ".", a decimal literal with
\* at most one "." and at least one digit
FloatOk(num) ==
    /\ \A k \in 1..Len(num) : num[k] \in Digits \cup {"."}
    /\ Cardinality({k \in 1..Len(num) : num[k] = "."}) <= 1
    /\ \E k \in 1..Len(num) : num[k] \in Digits

\* int(float(num)): truncation of the magnitude to an integer
IntOfFloat(num) == DecVal(IntPart(num))

RECURSIVE Pow1024(_)
Pow1024(k) == IF k = 0 THEN 1 ELSE 1024 * Pow1024(k - 1)

UnitNames == {Str2("K", "i"), Str2("M", "i"), Str2("G", "i"), Str2("T", "i"), Str2("P", "i")}

units(unit) ==
    CASE unit = Str2("K", "i") -> Pow1024(1)
      [] unit = Str2("M", "i") -> Pow1024(2)
      [] unit = Str2("G", "i") -> Pow1024(3)
      [] unit = Str2("T", "i") -> Pow1024(4)
      [] unit = Str2("P", "i") -> Pow1024(5)

Returned(v) == [raised |-> FALSE, val |-> v]

Raised == [raised |-> TRUE, val |-> 0]

\* parse_size(size_str): the byte count, or the exception float() or the
\* units lookup raises
parse_size(size_str) ==
    LET num == AllButLast2(size_str)
        unit == Last2(size_str)
    IN IF ~FloatOk(num) THEN Raised
       ELSE IF unit \notin UnitNames THEN Raised
       ELSE Returned(IntOfFloat(num) * units(unit))

\* ------------------------------------------------------------------ prober
\* os.statvfs(mount_point): the statistics, or OSError
StatOk(blocks, bfree, frsize) ==
    [ok |-> TRUE, f_blocks |-> blocks, f_bfree |-> bfree, f_frsize |-> frsize]

StatError == [ok |-> FALSE, f_blocks |-> 0, f_bfree |-> 0, f_frsize |-> 0]

\* /etc/mtab: a line is the sequence of its whitespace-separated tokens
MtabOf(lines) == [readable |-> TRUE, lines |-> lines]

MtabUnreadable == [readable |-> FALSE, lines |-> << >>]

\* a plausible slip: the name is looked for in the source token only
InSourceToken(name, line) == Len(line) >= 1 /\ IsSubstr(name, line[1])

\* name in line, for a name without whitespace
InLine(name, line) == \E k \in 1..Len(line) : IsSubstr(name, line[k])

Measured(used) == [measured |-> TRUE, used |-> used, pvc_type |-> "csi", error |-> FALSE]

NotMeasured == [measured |-> FALSE, used |-> 0, pvc_type |-> None, error |-> FALSE]

ProbeError == [measured |-> FALSE, used |-> 0, pvc_type |-> None, error |-> TRUE]

\* the for loop of get_pvc_used from line k on; statvfs maps a mount point
\* to what os.statvfs gives for it
RECURSIVE ScanMtab(_, _, _, _)
ScanMtab(pv, lines, k, statvfs) ==
    IF k > Len(lines) THEN NotMeasured
    ELSE IF InLine(pv.name, lines[k])
         THEN IF Len(lines[k]) < 2 THEN ProbeError
              ELSE IF pv.csi
                   THEN LET st == statvfs[lines[k][2]]
                        IN IF st.ok
                           THEN Measured((st.f_blocks - st.f_bfree) * st.f_frsize)
                           ELSE ProbeError
                   ELSE ScanMtab(pv, lines, k + 1, statvfs)
         ELSE ScanMtab(pv, lines, k + 1, statvfs)

get_pvc_used(pv, mtab, statvfs) ==
    IF ~mtab.readable THEN ProbeError
    ELSE ScanMtab(pv, mtab.lines, 1, statvfs)

\* ------------------------------------------------------------------ gauges
\* A gauge family is a function from the label tuples that have a child to
\* the child's value.
NoSamples == [l \in {} |-> 0]

\* a plausible slip: the value is added to the child instead of replacing it
GaugeAdd(g, l, v) ==
    [x \in DOMAIN g \cup {l} |->
        IF x = l THEN (IF l \in DOMAIN g THEN g[l] ELSE 0) + v ELSE g[x]]

\* Gauge.labels(l).set(v)
GaugeSet(g, l, v) == [x \in DOMAIN g \cup {l} |-> IF x = l THEN v ELSE g[x]]

\* Gauge.labels(l).inc(): a new child starts at 0
GaugeInc(g, l) ==
    [x \in DOMAIN g \cup {l} |->
        IF x = l THEN (IF l \in DOMAIN g THEN g[l] ELSE 0) + 1 ELSE g[x]]

\* ------------------------------------------------------------------ cluster API
\* v1.read_namespaced_persistent_volume_claim: the claim, or an exception
PvcOf(name, namespace, volume_name) ==
    [ok |-> TRUE, name |-> name, namespace |-> namespace, volume_name |-> volume_name]

ApiErrorPvc == [ok |-> FALSE, name |-> None, namespace |-> None, volume_name |-> Empty]

\* v1.read_persistent_volume: the volume, or an exception
PvOf(name, csi, capacity) ==
    [ok |-> TRUE, name |-> name, csi |-> csi, capacity |-> capacity]

ApiErrorPv == [ok |-> FALSE, name |-> Empty, csi |-> FALSE, capacity |-> Empty]

NoPair == [found |-> FALSE, res |-> "NotFound", pvc |-> ApiErrorPvc, pv |-> ApiErrorPv]

\* get_pvc_pv_pair against the answers env.pvc and env.pv of the API
get_pvc_pv_pair(claim_ref, namespace, env) ==
    IF ~env.pvc.ok THEN NoPair
    ELSE IF env.pvc.volume_name # Empty
         THEN IF ~env.pv.ok THEN NoPair
              ELSE [found |-> TRUE, res |-> "Ok", pvc |-> env.pvc, pv |-> env.pv]
         ELSE [NoPair EXCEPT !.res = "Unbound"]

\* ------------------------------------------------------------------ one cycle
\* The walk state S: the three gauges, the two per-cycle caches, the calls
\* made so far in this cycle (log) and whether an exception is propagating.
Event(op, claim, ns, res, val) ==
    [op |-> op, claim |-> claim, ns |-> ns, res |-> res, val |-> val]

Logged(S, e) == [S EXCEPT !.log = Append(@, e)]

\* a plausible slip: the capacity is only published for a measured volume
update_pvc_metrics_measured_only(S, pvc, pv, env) ==
    LET r == get_pvc_used(pv, env.mtab, env.statvfs)
        S1 == Logged(S, Event("get_pvc_used", pvc.name, pvc.namespace,
                              IF r.measured THEN "Measured"
                              ELSE IF r.error THEN "ProbeError" ELSE "NotMeasurable",
                              r.used))
        capacity_bytes == parse_size(pv.capacity)
    IN IF ~r.measured THEN S1
       ELSE IF pv.capacity # Empty /\ capacity_bytes.raised THEN [S1 EXCEPT !.raised = TRUE]
       ELSE LET S2 == Logged([S1 EXCEPT !.usage =
                                GaugeSet(@, <<pvc.name, pvc.namespace, r.pvc_type>>, r.used)],
                             Event("set_usage", pvc.name, pvc.namespace, r.pvc_type, r.used))
            IN IF pv.capacity = Empty THEN S2
               ELSE Logged([S2 EXCEPT !.total =
                               GaugeSet(@, <<pvc.name, pvc.namespace, r.pvc_type>>,
                                        capacity_bytes.val)],
                           Event("set_total", pvc.name, pvc.namespace, r.pvc_type,
                                 capacity_bytes.val))

update_pvc_metrics(S, pvc, pv, env) ==
    LET r == get_pvc_used(pv, env.mtab, env.statvfs)
        S1 == Logged(S, Event("get_pvc_used", pvc.name, pvc.namespace,
                              IF r.measured THEN "Measured"
                              ELSE IF r.error THEN "ProbeError" ELSE "NotMeasurable",
                              r.used))
        S2 == IF r.measured
              THEN Logged([S1 EXCEPT !.usage =
                              GaugeSet(@, <<pvc.name, pvc.namespace, r.pvc_type>>, r.used)],
                          Event("set_usage", pvc.name, pvc.namespace, r.pvc_type, r.used))
              ELSE S1
        capacity == pv.capacity
    IN IF capacity # Empty
       THEN LET capacity_bytes == parse_size(capacity)
            IN IF capacity_bytes.raised
               THEN [S2 EXCEPT !.raised = TRUE]
               ELSE Logged([S2 EXCEPT !.total =
                               GaugeSet(@, <<pvc.name, pvc.namespace, r.pvc_type>>,
                                        capacity_bytes.val)],
                           Event("set_total", pvc.name, pvc.namespace, r.pvc_type,
                                 capacity_bytes.val))
       ELSE S2

update_pvc_pod_mapping(S, claim_ref, ns_name, p) ==
    Logged([S EXCEPT !.mapping =
               GaugeInc(@, <<claim_ref, ns_name, p.name, ns_name, p.host_ip>>)],
           Event("inc_mapping", claim_ref, ns_name, p.name, 0))

\* a plausible slip: the claim is never added to processed_pvc
handle_pvc_unmarked(S, claim_ref, ns_name, env) ==
    LET pair == get_pvc_pv_pair(claim_ref, ns_name, env)
        S1 == Logged(S, Event("get_pvc_pv_pair", claim_ref, ns_name, pair.res, 0))
    IN IF pair.found
       THEN update_pvc_metrics([S1 EXCEPT !.pvc_to_pv =
                                   [c \in DOMAIN @ \cup {claim_ref} |->
                                       IF c = claim_ref
                                       THEN [pvc |-> pair.pvc, pv |-> pair.pv]
                                       ELSE @[c]]],
                               pair.pvc, pair.pv, env)
       ELSE S1

\* a plausible slip: get_pvc_pv_pair does not catch the exception of the API
handle_pvc_fetch_raises(S, claim_ref, ns_name, env) ==
    LET pair == get_pvc_pv_pair(claim_ref, ns_name, env)
        S1 == Logged(S, Event("get_pvc_pv_pair", claim_ref, ns_name, pair.res, 0))
    IN IF pair.found
       THEN LET S2 == [S1 EXCEPT !.pvc_to_pv =
                          [c \in DOMAIN @ \cup {claim_ref} |->
                              IF c = claim_ref THEN [pvc |-> pair.pvc, pv |-> pair.pv]
                              ELSE @[c]]]
                S3 == update_pvc_metrics(S2, pair.pvc, pair.pv, env)
            IN IF S3.raised THEN S3
               ELSE [S3 EXCEPT !.processed_pvc = @ \cup {claim_ref}]
       ELSE IF pair.res = "NotFound" THEN [S1 EXCEPT !.raised = TRUE]
       ELSE S1

handle_pvc(S, claim_ref, ns_name, env) ==
    LET pair == get_pvc_pv_pair(claim_ref, ns_name, env)
        S1 == Logged(S, Event("get_pvc_pv_pair", claim_ref, ns_name, pair.res, 0))
    IN IF pair.found
       THEN LET S2 == [S1 EXCEPT !.pvc_to_pv =
                          [c \in DOMAIN @ \cup {claim_ref} |->
                              IF c = claim_ref THEN [pvc |-> pair.pvc, pv |-> pair.pv]
                              ELSE @[c]]]
                S3 == update_pvc_metrics(S2, pair.pvc, pair.pv, env)
            IN IF S3.raised THEN S3
               ELSE [S3 EXCEPT !.processed_pvc = @ \cup {claim_ref}]
       ELSE S1

\* a plausible slip: the mapping is only recorded for a claim that resolved
handle_volume_resolved_only(S, volume, p, ns_name, env) ==
    IF volume = None THEN S
    ELSE IF volume \in S.processed_pvc THEN S
    ELSE LET S1 == handle_pvc(S, volume, ns_name, env)
         IN IF S1.raised \/ volume \notin S1.processed_pvc THEN S1
            ELSE update_pvc_pod_mapping(S1, volume, ns_name, p)

\* a volume is its persistent_volume_claim source: a claim name, or None for
\* every other kind of volume
handle_volume(S, volume, p, ns_name, env) ==
    IF volume = None THEN S
    ELSE IF volume \in S.processed_pvc THEN S
    ELSE LET S1 == handle_pvc(S, volume, ns_name, env)
         IN IF S1.raised THEN S1
            ELSE update_pvc_pod_mapping(S1, volume, ns_name, p)

\* a plausible slip: the phase of the pod is not tested
SkippedByHostOnly(p, local_ip) == p.host_ip # local_ip

\* the test of handle_pod: the pod is skipped
Skipped(p, local_ip) == p.host_ip # local_ip \/ p.phase # "Running"

\* a plausible slip: the exception is not caught and the process exits
ExitsOnException == "exit"

\* run_exporter catches every Exception of update_metrics, logs it and goes
\* on to time.sleep
AfterException == "sleep"

\* ------------------------------------------------------------------ inputs
Claims == {"c1"}

Namespaces == {"n1", "n2"}

\* one name for every pod a listing can hold
PodNames == {"p" \o ToString(k) : k \in 1..MaxPods}

LocalIP == "ip1"

\* status.host_ip of a pod: None while the pod is not scheduled
HostIPs == {LocalIP, "ip2", None}

Phases == {"Running", "Pending"}

RECURSIVE SeqsUpTo(_, _)
SeqsUpTo(S, n) ==
    IF n = 0 THEN {<< >>}
    ELSE SeqsUpTo(S, n - 1) \cup {Append(q, x) : q \in {r \in SeqsUpTo(S, n - 1) : Len(r) = n - 1}, x \in S}

VolumeLists == SeqsUpTo(Claims \cup {None}, MaxVols)

\* a pod of the listing: a pod that is not scheduled is Pending
Pods ==
    {p \in [name : PodNames, namespace : Namespaces, host_ip : HostIPs,
            phase : Phases, volumes : VolumeLists] :
        p.host_ip = None => p.phase = "Pending"}

NoPod == [name |-> None, namespace |-> None, host_ip |-> None, phase |-> None,
          volumes |-> << >>]

PvA == Str1("a")

MountM == Str1("m")

MainPvNames == {PvA}

MainQuantities == {Empty, Str3("1", "K", "i"), Str3("2", "K", "i"), Str2("1", "G")}

MainMtabs == {MtabUnreadable, MtabOf(<< >>), MtabOf(<<Str2(PvA, MountM)>>)}

MainStats == {StatOk(4, 2, 512), StatOk(4, 1, 512), StatError}

NoEnv == [pvc |-> ApiErrorPvc, pv |-> ApiErrorPv, mtab |-> MtabUnreadable,
          statvfs |-> [m \in {MountM} |-> StatError]]

\* what the API, the mount table and the filesystem answer while one claim
\* is handled
MainEnvs(claim_ref, ns_name) ==
    {NoEnv, [NoEnv EXCEPT !.pvc = PvcOf(claim_ref, ns_name, Empty)]}
    \cup {[NoEnv EXCEPT !.pvc = PvcOf(claim_ref, ns_name, n)] : n \in MainPvNames}
    \cup {[pvc |-> PvcOf(claim_ref, ns_name, n), pv |-> PvOf(n, csi, q), mtab |-> mt,
           statvfs |-> [m \in {MountM} |-> st]] :
             n \in MainPvNames, csi \in BOOLEAN, q \in MainQuantities,
             mt \in MainMtabs, st \in MainStats}

\* ------------------------------------------------------------------ state
VARIABLES
    HOST_IP,             \* os.getenv('HOST_IP')
    pc,                  \* run_exporter: "loop", "walk" (in update_metrics), "sleep"
    cycle,               \* calls of update_metrics so far
    failed,              \* the last update_metrics raised (run_exporter logged it)
    todo,                \* pods of the listing not yet reached by the for loop
    pod,                 \* the pod handle_pod is working on
    j,                   \* index of its next volume
    metric_pvc_usage, metric_pvc_total, metric_pvc_mapping,
    pvc_to_pv, processed_pvc,
    log,                 \* calls made in the current cycle
    walked,              \* names of the pods of the listing reached so far
    mounts,              \* <<claim, namespace, pod>> of the running local pods reached
    prev,                \* mounts of the cycle before
    start,               \* the gauges when the current cycle started
    arg,                 \* the argument of a function called on its own
    ret                  \* and what the call gave

vars == <<HOST_IP, pc, cycle, failed, todo, pod, j, metric_pvc_usage, metric_pvc_total,
          metric_pvc_mapping, pvc_to_pv, processed_pvc, log, walked, mounts, prev, start,
          arg, ret>>

Gauges == [usage |-> metric_pvc_usage, total |-> metric_pvc_total,
           mapping |-> metric_pvc_mapping]

WalkState == [usage |-> metric_pvc_usage, total |-> metric_pvc_total,
              mapping |-> metric_pvc_mapping, pvc_to_pv |-> pvc_to_pv,
              processed_pvc |-> processed_pvc, log |-> log, raised |-> FALSE]

NoCache == [c \in {} |-> 0]

\* a plausible slip: the dedup set is created once, not per cycle
KeptProcessed == processed_pvc

\* processed_pvc = set()
NewProcessed == {}

\* no function is being called on its own
NoArg == [fn |-> None]

NotCalled == [called |-> FALSE]

Called(r) == [called |-> TRUE, out |-> r]

InitWith(local_ip) ==
    /\ HOST_IP = local_ip
    /\ pc = "loop"
    /\ cycle = 0
    /\ failed = FALSE
    /\ todo = 0
    /\ pod = NoPod
    /\ j = 1
    /\ metric_pvc_usage = NoSamples
    /\ metric_pvc_total = NoSamples
    /\ metric_pvc_mapping = NoSamples
    /\ pvc_to_pv = NoCache
    /\ processed_pvc = {}
    /\ log = << >>
    /\ walked = {}
    /\ mounts = {}
    /\ prev = {}
    /\ start = [usage |-> NoSamples, total |-> NoSamples, mapping |-> NoSamples]

\* the exporter runs; no function is called on its own
Init == InitWith(LocalIP) /\ arg = NoArg /\ ret = NotCalled

\* update_metrics up to the listing: the caches are created empty, then the
\* pods are listed
EnterCycle ==
    /\ pc = "loop"
    /\ cycle < MaxCycles
    /\ cycle' = cycle + 1
    /\ pvc_to_pv' = NoCache
    /\ processed_pvc' = NewProcessed
    /\ log' = << >>
    /\ walked' = {}
    /\ mounts' = {}
    /\ prev' = mounts
    /\ start' = Gauges
    /\ pod' = NoPod
    /\ j' = 1
    /\ UNCHANGED <<HOST_IP, metric_pvc_usage, metric_pvc_total, metric_pvc_mapping,
                   arg, ret>>

\* list_pod_for_all_namespaces returns a listing of n pods
ListPods ==
    /\ EnterCycle
    /\ \E n \in 0..MaxPods : todo' = n
    /\ pc' = "walk"
    /\ UNCHANGED failed

\* list_pod_for_all_namespaces raises: run_exporter logs it and sleeps
ListFails ==
    /\ EnterCycle
    /\ todo' = 0
    /\ pc' = AfterException
    /\ failed' = TRUE

PodDone == pod = NoPod \/ Skipped(pod, HOST_IP) \/ j > Len(pod.volumes)

\* a pod that runs on the local node
RunningLocal(p) == p.host_ip = HOST_IP /\ p.phase = "Running"

MountsOf(p) ==
    {<<p.volumes[k], p.namespace, p.name>> :
        k \in {i \in 1..Len(p.volumes) : p.volumes[i] # None}}

\* the for loop of update_metrics reaches the next pod of the listing and
\* handle_pod tests it.  The listing is any sequence of at most MaxPods pods
\* with distinct names; nothing but this loop reads it, so its pods are drawn
\* as the loop reaches them.
handle_pod ==
    /\ pc = "walk"
    /\ PodDone
    /\ todo > 0
    /\ \E p \in Pods :
        /\ p.name \notin walked
        /\ pod' = p
        /\ walked' = walked \cup {p.name}
        /\ mounts' = IF RunningLocal(p) THEN mounts \cup MountsOf(p) ELSE mounts
    /\ todo' = todo - 1
    /\ j' = 1
    /\ UNCHANGED <<HOST_IP, pc, cycle, failed, metric_pvc_usage, metric_pvc_total,
                   metric_pvc_mapping, pvc_to_pv, processed_pvc, log, prev, start,
                   arg, ret>>

\* the walk state S becomes the state; an exception leaves update_metrics
\* (its loop variables are gone) and is logged by run_exporter, which then
\* sleeps
Apply(S) ==
    /\ metric_pvc_usage' = S.usage
    /\ metric_pvc_total' = S.total
    /\ metric_pvc_mapping' = S.mapping
    /\ pvc_to_pv' = S.pvc_to_pv
    /\ processed_pvc' = S.processed_pvc
    /\ log' = S.log
    /\ IF S.raised
       THEN pc' = AfterException /\ failed' = TRUE /\ pod' = NoPod /\ j' = 1 /\ walked' = {}
       ELSE pc' = pc /\ failed' = failed /\ pod' = pod /\ j' = j + 1 /\ walked' = walked

NeedsEnv(volume) == volume # None /\ volume \notin processed_pvc

\* handle_pod calls handle_volume for the next volume of the pod
HandleVolume ==
    /\ pc = "walk"
    /\ ~PodDone
    /\ LET volume == pod.volumes[j]
       IN IF NeedsEnv(volume)
          THEN \E env \in MainEnvs(volume, pod.namespace) :
                   Apply(handle_volume(WalkState, volume, pod, pod.namespace, env))
          ELSE Apply(handle_volume(WalkState, volume, pod, pod.namespace, NoEnv))
    /\ UNCHANGED <<HOST_IP, cycle, todo, mounts, prev, start, arg, ret>>

\* update_metrics returns: run_exporter sleeps
Return ==
    /\ pc = "walk"
    /\ PodDone
    /\ todo = 0
    /\ pc' = "sleep"
    /\ failed' = FALSE
    /\ pod' = NoPod
    /\ j' = 1
    /\ walked' = {}
    /\ UNCHANGED <<HOST_IP, cycle, todo, metric_pvc_usage, metric_pvc_total,
                   metric_pvc_mapping, pvc_to_pv, processed_pvc, log, mounts, prev, start,
                   arg, ret>>

\* time.sleep returns
Sleep ==
    /\ pc = "sleep"
    /\ pc' = "loop"
    /\ UNCHANGED <<HOST_IP, cycle, failed, todo, pod, j, metric_pvc_usage,
                   metric_pvc_total, metric_pvc_mapping, pvc_to_pv, processed_pvc, log,
                   walked, mounts, prev, start, arg, ret>>

Next == ListPods \/ ListFails \/ handle_pod \/ HandleVolume \/ Return \/ Sleep

Spec == Init /\ [][Next]_vars

\* cycles are fair: every call the loop makes returns
LiveSpec == Spec /\ WF_vars(Next)

\* ------------------------------------------------------------------ claims
\* the calls op made in the current cycle for claim c of namespace ns
Events(op, c, ns) ==
    {k \in 1..Len(log) : log[k].op = op /\ log[k].claim = c /\ log[k].ns = ns}

CycleSucceeded == pc = "sleep" /\ ~failed

CycleFailed == pc = "sleep" /\ failed

\* claim c of namespace ns is mounted by a running local pod of the cycle
MountedIn(set, c, ns) == \E m \in set : m[1] = c /\ m[2] = ns

MappingLabels(m) == <<m[1], m[2], m[3], m[2], HOST_IP>>

SamplesOf(g, c, ns) == {t \in DOMAIN g : t[1] = c /\ t[2] = ns}

\* C1: after a cycle, the pvc_pod_mapping sample of every (claim, namespace,
\* pod, node) tuple mounted in that cycle has the indicator value 1, however
\* many cycles the pod has mounted the claim in.
C1_MappingIsIndicator ==
    CycleSucceeded =>
        \A m \in mounts :
            MappingLabels(m) \in DOMAIN metric_pvc_mapping
                => metric_pvc_mapping[MappingLabels(m)] = 1

\* C2: a claim mounted by a running local pod in the cycle before and by none
\* in the cycle that has just completed has no usage, capacity or mapping
\* sample left.
C2_UnmountedClaimHasNoSamples ==
    CycleSucceeded =>
        \A c \in Claims, ns \in Namespaces :
            (MountedIn(prev, c, ns) /\ ~MountedIn(mounts, c, ns)) =>
                /\ SamplesOf(metric_pvc_usage, c, ns) = {}
                /\ SamplesOf(metric_pvc_total, c, ns) = {}
                /\ SamplesOf(metric_pvc_mapping, c, ns) = {}

\* two distinct running local pods of the cycle mount claim c of namespace ns
Shared(c, ns) ==
    \E m1, m2 \in mounts : m1[1] = c /\ m1[2] = ns /\ m2[1] = c /\ m2[2] = ns /\ m1[3] # m2[3]

MappingRecorded(m) ==
    /\ \E k \in Events("inc_mapping", m[1], m[2]) : log[k].res = m[3]
    /\ MappingLabels(m) \in DOMAIN metric_pvc_mapping

\* C3: when two distinct running local pods mount the same claim in a cycle,
\* the cycle records a mapping sample for each of the two pods.
C3_SharedClaimMapsEveryPod ==
    CycleSucceeded =>
        \A m \in mounts : Shared(m[1], m[2]) => MappingRecorded(m)

ResolvedOk(c, ns) == \E k \in Events("get_pvc_pv_pair", c, ns) : log[k].res = "Ok"

MeasuredIn(c, ns) == \E k \in Events("get_pvc_used", c, ns) : log[k].res = "Measured"

\* the volume the cycle resolved claim c to
PvOfClaim(c) == pvc_to_pv[c].pv

Unresolved(c, ns) ==
    /\ Events("get_pvc_pv_pair", c, ns) # {}
    /\ \A k \in Events("get_pvc_pv_pair", c, ns) : log[k].res \in {"NotFound", "Unbound"}

SameSamples(g, h, c, ns) ==
    /\ SamplesOf(g, c, ns) = SamplesOf(h, c, ns)
    /\ \A t \in SamplesOf(g, c, ns) : g[t] = h[t]

\* C5: a resolution that gives Unbound or NotFound is followed at once by the
\* mapping update of the pod whose volume was being handled, and that sample
\* is exposed; and a claim all of whose resolutions in a cycle give Unbound
\* or NotFound gets no usage and no capacity sample set in that cycle.
C5_UnresolvedClaimOnlyMapped ==
    /\ \A k \in 1..Len(log) :
         (log[k].op = "get_pvc_pv_pair" /\ log[k].res # "Ok") =>
            /\ k < Len(log)
            /\ log[k + 1].op = "inc_mapping"
            /\ log[k + 1].claim = log[k].claim
            /\ log[k + 1].ns = log[k].ns
            /\ <<log[k].claim, log[k].ns, log[k + 1].res>> \in mounts
            /\ MappingRecorded(<<log[k].claim, log[k].ns, log[k + 1].res>>)
    /\ CycleSucceeded =>
         \A c \in Claims, ns \in Namespaces :
            Unresolved(c, ns) =>
                /\ Events("set_usage", c, ns) = {}
                /\ Events("set_total", c, ns) = {}
                /\ SameSamples(metric_pvc_usage, start.usage, c, ns)
                /\ SameSamples(metric_pvc_total, start.total, c, ns)

C5_Witness ==
    /\ CycleSucceeded
    /\ \E k \in 1..Len(log) : log[k].op = "get_pvc_pv_pair" /\ log[k].res = "Unbound"
    /\ \E k \in 1..Len(log) : log[k].op = "get_pvc_pv_pair" /\ log[k].res = "NotFound"
    /\ \E m \in mounts : Unresolved(m[1], m[2]) /\ MappingRecorded(m)

\* parse_size accepts the capacity the volume declares
CapacityParses(pv) == pv.capacity # Empty /\ ~parse_size(pv.capacity).raised

\* C6: when the probe of a resolved claim finds the volume not measurable,
\* no usage sample is set for the claim in the cycle, the capacity sample is
\* set next to parse_size of the declared capacity (when the volume declares
\* one that parse_size accepts) and the mapping of the mounting pod is
\* recorded after it.
C6_NotMeasurableKeepsCapacity ==
    \A k \in 1..Len(log) :
        (log[k].op = "get_pvc_used" /\ log[k].res = "NotMeasurable") =>
            LET c == log[k].claim
                ns == log[k].ns
                pv == PvOfClaim(c)
            IN /\ Events("set_usage", c, ns) = {}
               /\ CapacityParses(pv) =>
                    /\ k + 2 <= Len(log)
                    /\ log[k + 1].op = "set_total"
                    /\ log[k + 1].claim = c /\ log[k + 1].ns = ns
                    /\ log[k + 1].val = parse_size(pv.capacity).val
                    /\ \E t \in SamplesOf(metric_pvc_total, c, ns) :
                          metric_pvc_total[t] = parse_size(pv.capacity).val
                    /\ log[k + 2].op = "inc_mapping"
                    /\ log[k + 2].claim = c /\ log[k + 2].ns = ns
                    /\ \E m \in mounts : m[1] = c /\ m[2] = ns /\ MappingRecorded(m)
               /\ pv.capacity = Empty =>
                    /\ k + 1 <= Len(log)
                    /\ log[k + 1].op = "inc_mapping"
                    /\ log[k + 1].claim = c /\ log[k + 1].ns = ns

C6_Witness ==
    /\ CycleSucceeded
    /\ \E k \in 1..Len(log) :
        /\ log[k].op = "get_pvc_used" /\ log[k].res = "NotMeasurable"
        /\ ~PvOfClaim(log[k].claim).csi
        /\ CapacityParses(PvOfClaim(log[k].claim))
        /\ SamplesOf(metric_pvc_usage, log[k].claim, log[k].ns) = {}

\* the pod is on another node or is not running
FilteredOut(p) == p # NoPod /\ (p.host_ip # HOST_IP \/ p.phase # "Running")

\* C7: the step that hands handle_pod a pod of another node or a pod that is
\* not running, and every step taken while that pod is the current one,
\* leaves the three gauges, the caches and the calls made unchanged.
C7_FilteredPodChangesNothing ==
    [][(FilteredOut(pod') \/ FilteredOut(pod)) =>
          UNCHANGED <<metric_pvc_usage, metric_pvc_total, metric_pvc_mapping,
                      pvc_to_pv, processed_pvc, log>>]_vars

C7_Witness ==
    /\ pc = "walk"
    /\ pod.host_ip = HOST_IP
    /\ pod.phase = "Pending"
    /\ \E k \in 1..Len(pod.volumes) : pod.volumes[k] \in Claims
    /\ cycle > 1
    /\ DOMAIN metric_pvc_mapping # {}

\* C8: a measured claim's usage sample equals the used bytes the probe of the
\* cycle computed, and its capacity sample equals parse_size of the capacity
\* the resolved volume declares, whatever the samples held before.
C8_SamplesHoldCycleValues ==
    \A k \in 1..Len(log) :
        (log[k].op = "get_pvc_used" /\ log[k].res = "Measured") =>
            LET c == log[k].claim
                ns == log[k].ns
                pv == PvOfClaim(c)
                t == <<c, ns, "csi">>
            IN /\ t \in DOMAIN metric_pvc_usage
               /\ metric_pvc_usage[t] = log[k].val
               /\ CapacityParses(pv) =>
                    /\ t \in DOMAIN metric_pvc_total
                    /\ metric_pvc_total[t] = parse_size(pv.capacity).val

C8_Witness ==
    /\ CycleSucceeded
    /\ \E t \in DOMAIN start.usage \cap DOMAIN metric_pvc_usage :
        /\ MeasuredIn(t[1], t[2])
        /\ metric_pvc_usage[t] # start.usage[t]
        /\ t \in DOMAIN start.total \cap DOMAIN metric_pvc_total
        /\ metric_pvc_total[t] # start.total[t]

\* C9: the loop never stops: whatever the cycles so far did, failed ones
\* included, the next cycle is started (up to the bound on the cycles).
C9_NextCycleStarts ==
    \A n \in 0..(MaxCycles - 1) : (cycle = n) ~> (cycle = n + 1)

C9_Witness == pc = "walk" /\ failed /\ cycle > 1

\* C10: after a failed cycle the three gauges hold exactly the samples they
\* held when the cycle started.
C10_FailedCycleAppliesNothing == CycleFailed => Gauges = start

\* what a scrape of the exposition endpoint answered by the server thread
\* reads: the live gauges, as they are when the scrape runs
Scraped == Gauges

\* C11: a scrape that runs while a cycle is walking reads either the samples
\* the cycle started with or the samples the cycle ends with: once the walk
\* has changed what a scrape reads, no later step of the walk changes it again.
C11_ScrapeSeesWholeCycle ==
    [][(pc = "walk" /\ Scraped # start) => Scraped' = Scraped]_vars

\* ------------------------------------------------------------------ parse_size on its own
MaxLen == 5

\* the characters the quantities are written over
SizeChars == {"1", "5", ".", "K", "M", "i"}

Quantities == SeqsUpTo(SizeChars, MaxLen)

ParseInit ==
    /\ InitWith(LocalIP)
    /\ \E q \in Quantities : arg = [fn |-> "parse_size", size_str |-> q]
    /\ ret = NotCalled

CallParseSize ==
    /\ arg.fn = "parse_size"
    /\ ~ret.called
    /\ ret' = Called(parse_size(arg.size_str))
    /\ UNCHANGED <<HOST_IP, pc, cycle, failed, todo, pod, j, metric_pvc_usage,
                   metric_pvc_total, metric_pvc_mapping, pvc_to_pv, processed_pvc, log,
                   walked, mounts, prev, start, arg>>

ParseNext == CallParseSize

ParseSpec == ParseInit /\ [][ParseNext]_vars

\* the digits after the "." of num (none when it has no ".")
FracPart(num) == SubSeq(num, Len(IntPart(num)) + 2, Len(num))

RECURSIVE Pow10(_)
Pow10(k) == IF k = 0 THEN 1 ELSE 10 * Pow10(k - 1)

\* floor(magnitude * unit), the magnitude being the decimal literal num
FloorOfProduct(num, unit) ==
    (DecVal(IntPart(num) \o FracPart(num)) * unit) \div Pow10(Len(FracPart(num)))

\* C12: parse_size gives floor(magnitude * 1024^k) for the suffixes Ki..Pi,
\* truncating only the final byte count, and fails when the suffix is not one
\* of the five or the magnitude is not a number.
C12_ParseSizeFloorsByteCount ==
    (arg.fn = "parse_size" /\ ret.called) =>
        LET num == AllButLast2(arg.size_str)
            unit == Last2(arg.size_str)
        IN IF unit \in UnitNames /\ FloatOk(num)
           THEN ret.out = Returned(FloorOfProduct(num, units(unit)))
           ELSE ret.out = Raised

\* the volume declares a capacity that parse_size rejects
CapacityRejected(pv) == pv.capacity # Empty /\ parse_size(pv.capacity).raised

\* the call logged as e failed for its claim alone: the claim or the volume
\* could not be fetched, or the mount table or statvfs could not be read
LocalFailure(e) ==
    \/ e.op = "get_pvc_pv_pair" /\ e.res = "NotFound"
    \/ e.op = "get_pvc_used" /\ e.res = "ProbeError"

\* C13: a step of the walk in which a call fails for one claim alone (and the
\* claim's capacity is not one parse_size rejects) raises nothing: the walk
\* stays in the same pod and goes on to its next volume, with the pods not yet
\* reached still to come; and a cycle that walked only ends as failed on a
\* capacity that parse_size rejects.
C13_LocalFailureNotRaised ==
    /\ [][\A k \in (Len(log) + 1)..Len(log') :
            (/\ pc = "walk"
             /\ LocalFailure(log'[k])
             /\ log'[k].claim \in DOMAIN pvc_to_pv' =>
                    ~CapacityRejected(pvc_to_pv'[log'[k].claim].pv))
                => (pc' = "walk" /\ failed' = failed /\ pod' = pod /\ j' = j + 1
                    /\ todo' = todo)]_vars
    /\ [](CycleFailed /\ log # << >> =>
            /\ log[Len(log)].claim \in DOMAIN pvc_to_pv
            /\ CapacityRejected(PvOfClaim(log[Len(log)].claim)))

C13_Witness ==
    /\ CycleSucceeded
    /\ \E k1, k2, k3 \in 1..Len(log) :
        /\ k1 < k2 /\ k2 < k3
        /\ log[k1].op = "get_pvc_pv_pair" /\ log[k1].res = "NotFound"
        /\ log[k2].op = "get_pvc_used" /\ log[k2].res = "ProbeError"
        /\ log[k3].op = "inc_mapping"

\* ------------------------------------------------------------------ get_pvc_used on its own
MaxLines == 2

\* source tokens and mount points of the mount-table entries: the volume
\* name PvA occurs in some and not in others
ProbeSources == {PvA, Str2("x", "a"), Str1("x")}

ProbeMountPoints == {MountM, Str2("m", "a")}

\* an entry is the sequence of its tokens; an entry of one token has no
\* mount point
ProbeLines == {Str2(src, mp) : src \in ProbeSources, mp \in ProbeMountPoints} \cup {Str1(PvA)}

ProbeMtabs == {MtabUnreadable} \cup {MtabOf(ls) : ls \in SeqsUpTo(ProbeLines, MaxLines)}

ProbeInit ==
    /\ InitWith(LocalIP)
    /\ \E csi \in BOOLEAN, mt \in ProbeMtabs, sv \in [ProbeMountPoints -> MainStats] :
        arg = [fn |-> "get_pvc_used", pv |-> PvOf(PvA, csi, Empty), mtab |-> mt,
               statvfs |-> sv]
    /\ ret = NotCalled

CallGetPvcUsed ==
    /\ arg.fn = "get_pvc_used"
    /\ ~ret.called
    /\ ret' = Called(get_pvc_used(arg.pv, arg.mtab, arg.statvfs))
    /\ UNCHANGED <<HOST_IP, pc, cycle, failed, todo, pod, j, metric_pvc_usage,
                   metric_pvc_total, metric_pvc_mapping, pvc_to_pv, processed_pvc, log,
                   walked, mounts, prev, start, arg>>

ProbeNext == CallGetPvcUsed

ProbeSpec == ProbeInit /\ [][ProbeNext]_vars

\* the volume name occurs in the source token of the entry
NameInSource(name, line) == IsSubstr(name, line[1])

\* the volume name occurs in some token of the entry, mount point included
NameInEntry(name, line) == \E k \in 1..Len(line) : IsSubstr(name, line[k])

\* the entries of the table that Match selects, by index
Hits(Match(_, _)) ==
    {k \in 1..Len(arg.mtab.lines) : Match(arg.pv.name, arg.mtab.lines[k])}

\* the probe's answer when it measures at the first entry that Match selects
\* and finds the volume not measurable when Match selects none
AtFirstHit(Match(_, _)) ==
    LET hits == Hits(Match)
        first == CHOOSE k \in hits : \A m \in hits : k <= m
        line == arg.mtab.lines[first]
        st == arg.statvfs[line[2]]
    IN IF hits = {} THEN NotMeasured
       ELSE IF Len(line) >= 2 /\ st.ok
            THEN Measured((st.f_blocks - st.f_bfree) * st.f_frsize)
            ELSE ProbeError

ProbedCsi == arg.fn = "get_pvc_used" /\ ret.called /\ arg.pv.csi /\ arg.mtab.readable

\* C14 as stated: for a CSI volume the probe measures at the mount point of
\* the first entry, in table order, whose source token contains the volume
\* name; an entry that holds the name only outside its source token is not a
\* match; the volume is not measurable when no entry matches.
C14_ProberMatchesSourceToken == ProbedCsi => ret.out = AtFirstHit(NameInSource)

\* C14 amended: for a CSI volume and a readable table, the probe takes the
\* first entry, in table order, that contains the volume name in any of its
\* tokens, the mount point included; it gives (f_blocks - f_bfree) * f_frsize
\* of that entry's mount point when the entry has one and statvfs succeeds,
\* and a probe error otherwise; the volume is not measurable when no entry
\* contains the name.
C14_ProberMatchesWholeEntry == ProbedCsi => ret.out = AtFirstHit(NameInEntry)

C14_Witness ==
    /\ ProbedCsi
    /\ Cardinality(Hits(NameInEntry)) = 2
    /\ Hits(NameInSource) = {2}
    /\ Len(arg.mtab.lines[1]) = 2 /\ Len(arg.mtab.lines[2]) = 2
    /\ arg.statvfs[arg.mtab.lines[1][2]] # arg.statvfs[arg.mtab.lines[2][2]]
    /\ ret.out.measured

\* the calls op made in the current cycle for the claim name c
CallsFor(op, c) == {k \in 1..Len(log) : log[k].op = op /\ log[k].claim = c}

\* C15: the two caches are empty when a cycle starts, so whatever they hold
\* was put there by a successful resolution of the current cycle; a claim
\* mounted in a cycle is resolved in that cycle, and probed when resolved,
\* whatever the cycles before did with it.
C15_CachesStartEmpty ==
    /\ [][cycle' # cycle => (pvc_to_pv' = NoCache /\ processed_pvc' = {})]_vars
    /\ [](\A c \in processed_pvc \cup DOMAIN pvc_to_pv :
            \E k \in CallsFor("get_pvc_pv_pair", c) : log[k].res = "Ok")
    /\ [](CycleSucceeded => \A m \in mounts : CallsFor("get_pvc_pv_pair", m[1]) # {})
    /\ [](\A k \in 1..Len(log) :
            (log[k].op = "get_pvc_pv_pair" /\ log[k].res = "Ok")
                => \E n \in CallsFor("get_pvc_used", log[k].claim) : n > k)

C15_Witness ==
    /\ CycleSucceeded
    /\ cycle = 2
    /\ \E m \in mounts \cap prev :
        /\ SamplesOf(start.usage, m[1], m[2]) # {}
        /\ ResolvedOk(m[1], m[2])
        /\ MeasuredIn(m[1], m[2])

\* C16: a claim handled in the walk is marked processed whatever the outcome
\* of its resolution, so no claim (name and namespace) is fetched twice in one
\* cycle.
C16_ClaimFetchedOnce ==
    \A c \in Claims, ns \in Namespaces :
        Cardinality(Events("get_pvc_pv_pair", c, ns)) <= 1

\* ------------------------------------------------------------------ HOST_IP set or not
\* os.getenv('HOST_IP') is the node's address, or None when the variable is
\* not set
EnvInit == (InitWith(LocalIP) \/ InitWith(None)) /\ arg = NoArg /\ ret = NotCalled

EnvSpec == EnvInit /\ [][Next]_vars

OnlyMount(m) == \A n \in mounts : (n[1] = m[1] /\ n[2] = m[2]) => n = m

\* C18: after a cycle, every claim (name and namespace) mounted by a running
\* local pod has been resolved in the cycle on its own and, when it resolved,
\* has its own mapping sample and (with a capacity) its own capacity sample,
\* also when a claim of the same name in another namespace was handled before.
C18_SameNameOtherNamespace ==
    CycleSucceeded =>
        \A m \in mounts :
            OnlyMount(m) =>
                /\ Events("get_pvc_pv_pair", m[1], m[2]) # {}
                /\ ResolvedOk(m[1], m[2]) =>
                    /\ MappingRecorded(m)
                    /\ PvOfClaim(m[1]).capacity # Empty
                        => SamplesOf(metric_pvc_total, m[1], m[2]) # {}

\* C19: the capacity gauge holds at most one label tuple for a claim (name
\* and namespace), and its pvc_type is that of the claim's usage sample when
\* there is one, also for a volume measured in one cycle and not in another.
C19_OneCapacitySeriesPerClaim ==
    \A c \in Claims, ns \in Namespaces :
        /\ Cardinality(SamplesOf(metric_pvc_total, c, ns)) <= 1
        /\ \A t \in SamplesOf(metric_pvc_total, c, ns), u \in SamplesOf(metric_pvc_usage, c, ns) :
            t[3] = u[3]

\* C20: a capacity that parse_size rejects costs the claim its capacity sample
\* and nothing else: the mapping of the pod whose volume was being handled is
\* recorded after the resolution, and the cycle does not end as failed.
C20_RejectedCapacityIsLocal ==
    \A k \in 1..Len(log) :
        (/\ log[k].op = "get_pvc_pv_pair"
         /\ log[k].res = "Ok"
         /\ CapacityRejected(PvOfClaim(log[k].claim)))
            => /\ \E n \in Events("inc_mapping", log[k].claim, log[k].ns) : n > k
               /\ ~CycleFailed

====
